---- MODULE Spec2Model ----
(***************************************************************************)
(* Porffor explorer: the browser bridge's compileAll pipeline              *)
(* (explorer/compiler-bridge.js), the compiler stages it drives as they    *)
(* are documented in the repository's stage notes, and the peephole rules  *)
(* of the optimizer.                                                       *)
(***************************************************************************)
EXTENDS Integers, Sequences, FiniteSets, TLC

\* ------------------------------------------------------------------------
\* Program constants
\* ------------------------------------------------------------------------

STAGE_ORDER == <<"tokens", "parse", "semantic", "codegen", "opt", "assemble">>

\* wasmSpec.js PageSize: one Wasm page, 64 KiB
PageSize == 65536

\* JS null
Null == "null"

\* result.stages of a fresh result: {}
EmptyStages == [k \in {} |-> 0]

Range(s) == {s[i] : i \in 1..Len(s)}

\* ------------------------------------------------------------------------
\* Inputs: a source text, described by what each stage makes of it
\* ------------------------------------------------------------------------

\* fail: the stage that rejects the text ("none": it compiles)
FailKinds == {"none", "parse", "semantic", "codegen", "assemble"}

\* graph: the functions the text declares and which of them reference which
\*   flat:   print(1 + 2)
\*   fib:    function f(n) { ... f(n-1) ... } print(f(10))
\*   mutual: function f() { g() } function g() { f() } f()
\*   unused: function f() { let x = 1; } function g() { let x = 2; }
Graphs == {"flat", "fib", "mutual", "unused"}

\* slow: the one operation of compileAll that takes a measurable time on the
\* text (a tick of performance.now()'s clock); the others take less
Operations == {"tokenize", "parse", "clone", "semantic", "codegen",
               "disassemble", "opt", "assemble"}

\* (the texts that some stage rejects are taken with every operation fast)
Sources ==
  {src \in [fail : FailKinds, graph : Graphs, redundant : BOOLEAN,
             slow : Operations \cup {"none"}] :
     src.fail # "none" => src.slow = "none"}

\* clock ticks that operation op takes on src
Cost(op, src) == IF src.slow = op THEN 1 ELSE 0

Funcs == {"#main", "f", "g"}

Decls(src) ==
  CASE src.graph = "flat" -> {}
    [] src.graph = "fib" -> {"f"}
    [] OTHER -> {"f", "g"}

\* the functions fn's body references, in body order
Refs(src, fn) ==
  CASE src.graph = "fib" /\ fn = "#main" -> <<"f">>
    [] src.graph = "fib" /\ fn = "f" -> <<"f">>
    [] src.graph = "mutual" /\ fn = "#main" -> <<"f">>
    [] src.graph = "mutual" /\ fn = "f" -> <<"g">>
    [] src.graph = "mutual" /\ fn = "g" -> <<"f">>
    [] OTHER -> <<>>

\* ------------------------------------------------------------------------
\* Wasm IR instructions: [op, arg], arg a raw number
\* ------------------------------------------------------------------------

Instr(op, arg) == [op |-> op, arg |-> arg]

\* function index space: the four runtime imports first, then #main, f, g
ImportNames == <<"print", "printChar", "time", "timeOrigin">>

FuncIndex(fn) ==
  CASE fn = "print" -> 0
    [] fn = "printChar" -> 1
    [] fn = "time" -> 2
    [] fn = "timeOrigin" -> 3
    [] fn = "#main" -> 4
    [] fn = "f" -> 5
    [] OTHER -> 6

\* [null, callbackFn]: "deferred" resolves to a call of arg once every
\* function is generated; "deferred_bad" is a resolver that still yields a
\* deferred form (a generator bug)
IsDeferred(i) == i.op \in {"deferred", "deferred_bad"}

HasDeferred(code) == \E i \in 1..Len(code) : IsDeferred(code[i])

\* ------------------------------------------------------------------------
\* Peephole optimizer (compiler/opt.js as the stage notes document it)
\* ------------------------------------------------------------------------

\* peephole runs per opt() call ("run in 2 passes")
OptRuns == 2

RuleNames == <<"set_get", "get_drop", "tee_drop", "const_drop", "const0_eq",
               "conv_roundtrip", "const_trunc", "call_return">>

IsConst(i) == i.op \in {"i32.const", "i64.const", "f64.const"}

\* the conversion pairs removed as redundant: i32->i64->i32, i32->f64->i32,
\* f64->i32->f64
ConvPairs == {<<"i64.extend_i32_s", "i32.wrap_i64">>,
              <<"f64.convert_i32_s", "i32.trunc_f64_s">>,
              <<"i32.trunc_f64_s", "f64.convert_i32_s">>}

\* an f64.const carries twice its value (so that halves are representable);
\* the constant fold yields the floor of the value
FloorHalves(n) == n \div 2

\* does `rule` match the adjacent instructions a; b (tc: tail calls enabled)
Matches(rule, a, b, tc) ==
  CASE rule = "set_get" ->
         a.op = "local.set" /\ b.op = "local.get" /\ a.arg = b.arg
    [] rule = "get_drop" -> a.op = "local.get" /\ b.op = "drop"
    [] rule = "tee_drop" -> a.op = "local.tee" /\ b.op = "drop"
    [] rule = "const_drop" -> IsConst(a) /\ b.op = "drop"
    [] rule = "const0_eq" ->
         a.op = "i32.const" /\ a.arg = 0 /\ b.op = "i32.eq"
    [] rule = "conv_roundtrip" -> <<a.op, b.op>> \in ConvPairs
    [] rule = "const_trunc" -> a.op = "f64.const" /\ b.op = "i32.trunc_f64_s"
    [] rule = "call_return" -> tc /\ a.op = "call" /\ b.op = "return"
    [] OTHER -> FALSE

\* what `rule` puts in place of a; b
Replacement(rule, a, b) ==
  CASE rule = "set_get" -> <<Instr("local.tee", a.arg)>>
    [] rule = "get_drop" -> <<>>
    [] rule = "tee_drop" -> <<Instr("local.set", a.arg)>>
    [] rule = "const_drop" -> <<>>
    [] rule = "const0_eq" -> <<Instr("i32.eqz", 0)>>
    [] rule = "conv_roundtrip" -> <<>>
    [] rule = "const_trunc" -> <<Instr("i32.const", FloorHalves(a.arg))>>
    [] OTHER -> <<Instr("return_call", a.arg)>>

\* the places (position, rule) where a rule matches in wasm
MatchesIn(wasm, tc) ==
  {m \in (1..(Len(wasm) - 1)) \X Range(RuleNames) :
     Matches(m[2], wasm[m[1]], wasm[m[1] + 1], tc)}

RewriteAt(wasm, i, rule) ==
  SubSeq(wasm, 1, i - 1) \o Replacement(rule, wasm[i], wasm[i + 1])
    \o SubSeq(wasm, i + 2, Len(wasm))

\* a pass that stops after its first rewrite
PassOnce(wasm, tc) ==
  LET ms == MatchesIn(wasm, tc)
  IN IF ms = {} THEN wasm
     ELSE LET m == CHOOSE x \in ms : \A y \in ms : x[1] <= y[1]
          IN RewriteAt(wasm, m[1], m[2])

\* one pass: rewrite the leftmost match until no rule matches
RECURSIVE Pass(_, _)
Pass(wasm, tc) ==
  LET ms == MatchesIn(wasm, tc)
  IN IF ms = {} THEN wasm
     ELSE LET m == CHOOSE x \in ms : \A y \in ms : x[1] <= y[1]
          IN Pass(RewriteAt(wasm, m[1], m[2]), tc)

RECURSIVE Runs(_, _, _)
Runs(wasm, n, tc) == IF n = 0 THEN wasm ELSE Runs(Pass(wasm, tc), n - 1, tc)

\* an optimizer that rewrites nothing
optNothing(funcs, tc) == funcs

\* opt(funcs, ...): rewrites every function's wasm in place
opt(funcs, tc) == [fn \in DOMAIN funcs |-> Runs(funcs[fn], OptRuns, tc)]

\* ------------------------------------------------------------------------
\* State
\* ------------------------------------------------------------------------

VARIABLES
  pc,          \* where compileAll stands: "idle" (no call running), a stage
               \* of STAGE_ORDER about to run, or "lowering" (inside codegen)
  source,      \* compileAll's argument
  result,      \* compileAll's result object { stages, errors }
  returned,    \* compileAll has returned result
  failed,      \* the stage whose exception the catch block caught, or Null
  ran,         \* the stages executed by the running call, in order
  trees,       \* the AST objects of the call; an AST reference is an index
  irs,         \* the IR objects of the call; an IR reference is an index
  codegenArg,  \* the AST reference handed to codegen (0: none yet)
  uniqId,      \* globalThis._uniqId
  imports,     \* the import table of builtins.js
  valtype,     \* globalThis.valtype
  valtypeBinary, \* globalThis.valtypeBinary
  pageSize,    \* globalThis.pageSize
  closures,    \* Prefs.closures
  tailCall,    \* Prefs.tailCall
  resetDone,   \* the running call has reset the codegen state
  atCall,      \* _uniqId and the import table as the running call found them
  fstate,      \* lowering state of each function record
  body,        \* wasm emitted so far for each function
  todo,        \* references of each function's body not lowered yet
  stack,       \* the functions being lowered, innermost last
  now,         \* performance.now(), counted from the running call's entry
  t2,          \* const t2 of the running call (stage 3's start time)
  wasm,        \* optimizer: the instruction sequence being rewritten
  orig,        \* optimizer: the sequence as it was handed over
  applied,     \* optimizer: the rule of the last rewrite, or "none"
  passes,      \* optimizer: passes run over the sequence so far
  cvPair,      \* conversions: the pair of conversion opcodes being run
  cvIn,        \* conversions: the operand the pair is run on
  cvVal,       \* conversions: outcome so far, [trap, val]
  cvStep,      \* conversions: how many of the pair's opcodes have run
  cvSat,       \* conversions: the truncation saturates instead of trapping
  editor,      \* explorer: the text in the editor, by the stage rejecting it
  loaded,      \* explorer: the compiler bundle is loaded
  autoDue,     \* explorer: setTimeout(compile, 100) has not fired yet
  pending,     \* explorer: compile() invocations waiting in their await
  compiling,   \* explorer: the button shows 'Compiling...'
  errorBar,    \* explorer: #error-bar, [hidden, text]
  lastResult,  \* explorer: let lastResult
  activeStage, \* explorer: let activeStage
  detail,      \* explorer: #detail-view, [hidden, key, of]
  completed,   \* explorer: how the compile that finished last ended
  tkSource,    \* tokenize: its argument, a sequence of characters
  tkPos,       \* tokenize: let pos
  tkTokens,    \* tokenize: const tokens
  tkReturned   \* tokenize: it has returned tokens

pipeVars == <<pc, source, result, returned, failed, ran, trees, irs,
              codegenArg, uniqId, imports, valtype, valtypeBinary, pageSize,
              closures, tailCall, resetDone, atCall, fstate, body, todo,
              stack, now, t2>>

optVars == <<wasm, orig, applied, passes>>
convVars == <<cvPair, cvIn, cvVal, cvStep, cvSat>>
uiVars == <<editor, loaded, autoDue, pending, compiling, errorBar,
           lastResult, activeStage, detail, completed>>
tokVars == <<tkSource, tkPos, tkTokens, tkReturned>>
auxVars == <<optVars, convVars, uiVars, tokVars>>

\* ------------------------------------------------------------------------
\* compiler-bridge.js: globals and imports
\* ------------------------------------------------------------------------

\* wasmSpec.js Valtype.f64
Valtype_f64 == 124

\* a setImports that leaves the table as it is
setImportsKeeps(imps) == imps

\* builtins.js setImports(): empties the import table
setImports(imps) == <<>>

\* builtins.js createImport(name, ...): appends one import
createImport(imps, name) == Append(imps, name)

setupImports(imps) ==
  createImport(createImport(createImport(createImport(setImports(imps),
    "print"), "printChar"), "time"), "timeOrigin")

\* ------------------------------------------------------------------------
\* The stages' own work, as functions of their input
\* ------------------------------------------------------------------------

\* tokenize(source) inside compileAll: it catches its own exceptions, so it
\* always returns; here the token list is named by the text it is of, and
\* the tokens themselves are the subject of the tokenizer section below
tokenize(src) == [of |-> src.graph]

ParseOk(src) == src.fail # "parse"

\* parse(source): a new, unannotated tree of the parser's Node objects
parse(src) ==
  [src |-> src, annotated |-> FALSE, lowered |-> FALSE, nodes |-> TRUE]

\* JSON.parse(JSON.stringify(ast)): a new tree of plain objects holding
\* the enumerable data of the tree it is given
clone(tree) == [tree EXCEPT !.nodes = FALSE]

\* a bridge that hands the parse stage's own tree to semantic
NoClone(heap, ast) == ast

\* const semanticAst = JSON.parse(...): the reference of the clone, a new
\* object of the heap
semanticAst(heap, ast) == Len(heap) + 1

SemanticOk(src) == src.fail # "semantic"

\* semantic(node): annotates the tree it is given, in place
semantic(tree) == [tree EXCEPT !.annotated = TRUE]

\* disassemble(f.wasm, ...): the text of a body; it throws on a body it
\* cannot render, and compileAll records the message in the text's place
DisassembleOk(code) == ~HasDeferred(code)

disassemble(code) ==
  IF DisassembleOk(code) THEN code
  ELSE <<Instr(";; disassembly error", 0)>>

Disassembly(funcs) == [fn \in DOMAIN funcs |-> disassemble(funcs[fn])]

\* the resolver of a deferred instruction
Resolve(i) == IF i.op = "deferred" THEN Instr("call", i.arg) ELSE i

ResolveAll(code) == [i \in 1..Len(code) |-> Resolve(code[i])]

RECURSIVE SumLen(_, _)
SumLen(funcs, names) ==
  IF names = {} THEN 0
  ELSE LET fn == CHOOSE x \in names : TRUE
       IN Len(funcs[fn]) + SumLen(funcs, names \ {fn})

\* the binary: magic and version (8 bytes), then the encoded bodies
Binary(funcs) ==
  [kind |-> "wasm", byteLength |-> 8 + SumLen(funcs, DOMAIN funcs)]

\* an assemble that encodes without looking for surviving deferred forms
assembleUnchecked(funcs, src) ==
  [funcs |-> [fn \in DOMAIN funcs |-> ResolveAll(funcs[fn])],
   error |-> IF src.fail = "assemble" THEN "EncodingError" ELSE Null]

\* assemble(funcs, ...): resolves the deferred instructions in place, then
\* encodes; outcome: the resolved funcs and the exception, if any
assemble(funcs, src) ==
  LET resolved == [fn \in DOMAIN funcs |-> ResolveAll(funcs[fn])]
  IN [funcs |-> resolved,
      error |-> IF \E fn \in DOMAIN resolved : HasDeferred(resolved[fn])
                  THEN "UnresolvedReferenceError"
                ELSE IF src.fail = "assemble" THEN "EncodingError"
                ELSE Null]

\* ------------------------------------------------------------------------
\* compileAll: control flow
\* ------------------------------------------------------------------------

StageIndex(s) == CHOOSE i \in 1..Len(STAGE_ORDER) : STAGE_ORDER[i] = s

\* a compileAll whose codegen and semantic blocks are swapped
StageAfterSwapped(s) ==
  CASE s = "parse" -> "codegen"
    [] s = "codegen" -> "semantic"
    [] s = "semantic" -> "opt"
    [] s = "assemble" -> "idle"
    [] OTHER -> STAGE_ORDER[StageIndex(s) + 1]

\* Stages run in compileAll's statement order; after the last one it returns
StageAfter(s) ==
  IF StageIndex(s) = Len(STAGE_ORDER) THEN "idle"
  ELSE STAGE_ORDER[StageIndex(s) + 1]

\* a catch block that reports the error on a result without stages
CatchFreshResult(res, message) == [stages |-> EmptyStages, errors |-> message]

\* a catch block that drops the exception
CatchSwallows(res, message) == res

\* catch (e) { result.errors = { message: e.message, stack: e.stack } }

Catch(res, message) == [res EXCEPT !.errors = message]

\* result.stages[key] = record
\* a mis-ordered subtraction
TimeBackwards(t0, t1) == t0 - t1

\* performance.now() - t0, with t1 the clock when it is evaluated
Time(t0, t1) == t1 - t0

clockVars == <<now, t2>>

Record(res, key, rec) == [res EXCEPT !.stages = @ @@ (key :> rec)]

\* an exception thrown inside the try block by `stage`
Throw(stage, message) ==
  /\ result' = Catch(result, message)
  /\ failed' = stage
  /\ returned' = TRUE
  /\ pc' = "idle"

lowerVars == <<fstate, body, todo, stack>>
globalVars == <<uniqId, imports, valtype, valtypeBinary, pageSize>>
prefVars == <<closures, tailCall, atCall, auxVars>>

PipeInit ==
  /\ pc = "idle"
  /\ source = [fail |-> "none", graph |-> "flat", redundant |-> FALSE,
               slow |-> "none"]
  /\ result = [stages |-> EmptyStages, errors |-> Null]
  /\ returned = FALSE
  /\ failed = Null
  /\ ran = <<>>
  /\ trees = <<>>
  /\ irs = <<>>
  /\ codegenArg = 0
  /\ uniqId = 0
  /\ imports = setupImports(<<>>)
  /\ valtype = "f64"
  /\ valtypeBinary = Valtype_f64
  /\ pageSize = PageSize \div 4
  /\ closures \in BOOLEAN
  /\ tailCall \in BOOLEAN
  /\ resetDone = FALSE
  /\ atCall = [uniqId |-> 0, imports |-> setupImports(<<>>)]
  /\ fstate = [fn \in {} |-> "UNSEEN"]
  /\ body = [fn \in {} |-> <<>>]
  /\ todo = [fn \in {} |-> <<>>]
  /\ stack = <<>>
  /\ now = 0
  /\ t2 = 0

\* compileAll(source) is called: const result = { stages: {}, errors: null }
CallCompileAll(src) ==
  /\ pc = "idle"
  /\ source' = src
  /\ result' = [stages |-> EmptyStages, errors |-> Null]
  /\ returned' = FALSE
  /\ failed' = Null
  /\ ran' = <<>>
  /\ trees' = <<>>
  /\ irs' = <<>>
  /\ codegenArg' = 0
  /\ resetDone' = FALSE
  /\ atCall' = [uniqId |-> uniqId, imports |-> imports]
  /\ fstate' = [fn \in {} |-> "UNSEEN"]
  /\ body' = [fn \in {} |-> <<>>]
  /\ todo' = [fn \in {} |-> <<>>]
  /\ stack' = <<>>
  /\ now' = 0
  /\ t2' = 0
  /\ pc' = STAGE_ORDER[1]
  /\ UNCHANGED <<globalVars, closures, tailCall, auxVars>>

\* Stage 0: Tokenize
StageTokens ==
  /\ pc = "tokens"
  /\ ran' = Append(ran, "tokens")
  /\ now' = now + Cost("tokenize", source)
  /\ result' = Record(result, "tokens",
                      [name |-> "Tokens", data |-> tokenize(source),
                       time |-> Time(now, now')])
  /\ pc' = StageAfter("tokens")
  /\ UNCHANGED <<t2, source, returned, failed, trees, irs, codegenArg, resetDone,
                 lowerVars, globalVars, prefVars>>

\* Stage 1: Parse
StageParse ==
  /\ pc = "parse"
  /\ ran' = Append(ran, "parse")
  /\ now' = now + Cost("parse", source)
  /\ UNCHANGED t2
  /\ IF ParseOk(source)
       THEN /\ trees' = Append(trees, parse(source))
            /\ result' = Record(result, "parse",
                 [name |-> "AST (ESTree)", data |-> Len(trees) + 1,
                  time |-> Time(now, now')])
            /\ pc' = StageAfter("parse")
            /\ UNCHANGED <<failed, returned>>
       ELSE /\ Throw("parse", "ParseError")
            /\ UNCHANGED trees
  /\ UNCHANGED <<source, irs, codegenArg, resetDone, lowerVars, globalVars,
                 prefVars>>

\* Stage 2: Semantic Analysis, on a clone of the parse stage's tree
StageSemantic ==
  /\ pc = "semantic"
  /\ ran' = Append(ran, "semantic")
  /\ now' = now + Cost("clone", source) + Cost("semantic", source)
  /\ UNCHANGED t2
  /\ LET ast == result.stages["parse"].data
         cloned == Append(trees, clone(trees[ast]))
         arg == semanticAst(trees, ast)
     IN IF SemanticOk(source)
          THEN /\ trees' = [cloned EXCEPT ![arg] = semantic(@)]
               /\ result' = Record(result, "semantic",
                    [name |-> "Semantic Analysis", data |-> arg,
                     time |-> Time(now, now')])
               /\ pc' = StageAfter("semantic")
               /\ UNCHANGED <<failed, returned>>
          ELSE /\ trees' = cloned
               /\ Throw("semantic", "RedeclarationError")
  /\ UNCHANGED <<source, irs, codegenArg, resetDone, lowerVars, globalVars,
                 prefVars>>

\* ------------------------------------------------------------------------
\* Stage 3: code generation (compiler/codegen.js), lazy per function
\* ------------------------------------------------------------------------

LowerStates ==
  <<"UNSEEN", "SCHEDULED", "LOWERING", "DEFERRED_PATCHED", "LOWERED">>

LowerIndex(st) == CHOOSE i \in 1..Len(LowerStates) : LowerStates[i] = st

\* a lowering that declares a body final as soon as it is generated
AdvanceSkipsPatch(st) ==
  IF st = "LOWERING" THEN "LOWERED" ELSE LowerStates[LowerIndex(st) + 1]

\* the state that follows st in the lowering state machine
Advance(st) == LowerStates[LowerIndex(st) + 1]

\* what a body starts and ends with, besides its calls
Prelude(src, fn) ==
  IF src.redundant /\ fn = "#main"
    THEN <<Instr("f64.const", 2), Instr("local.set", 0),
           Instr("local.get", 0), Instr("drop", 0)>>
    ELSE <<>>

Epilogue(fn) == IF fn = "#main" THEN <<>> ELSE <<Instr("return", 0)>>

Lowered(fs) == {fn \in DOMAIN fs : fs[fn] = "LOWERED"}

\* the funcs of the module codegen returns: the functions it generated
ModuleFuncs(fs, bd) == [fn \in Lowered(fs) |-> bd[fn]]

Top == stack[Len(stack)]

\* Stage 3 begins: re-parse, reset of the codegen state, codegen(freshAst)
StageCodegen ==
  /\ pc = "codegen"
  /\ ran' = Append(ran, "codegen")
  /\ t2' = now
  /\ now' = now + Cost("parse", source)
  /\ IF ParseOk(source)
       THEN /\ trees' = Append(trees, parse(source))
            /\ uniqId' = 0
            /\ imports' = setupImports(imports)
            /\ valtype' = "f64"
            /\ valtypeBinary' = Valtype_f64
            /\ pageSize' = PageSize \div 4
            /\ resetDone' = TRUE
            /\ codegenArg' = Len(trees) + 1
            /\ fstate' = [fn \in Decls(source) \cup {"#main"} |-> "UNSEEN"]
            /\ body' = [fn \in Decls(source) \cup {"#main"} |-> <<>>]
            /\ todo' = [fn \in Decls(source) \cup {"#main"} |-> <<>>]
            /\ stack' = <<>>
            /\ pc' = "lowering"
            /\ UNCHANGED <<result, failed, returned>>
       ELSE /\ Throw("codegen", "ParseError")
            /\ UNCHANGED <<trees, globalVars, resetDone, codegenArg,
                           lowerVars>>
  /\ UNCHANGED <<source, irs, prefVars>>

lowerFrame == <<source, result, returned, failed, ran, trees, irs,
                codegenArg, resetDone, prefVars, pc, clockVars>>

\* the program body is wrapped in #main, the entry point: first reference
ScheduleMain ==
  /\ pc = "lowering"
  /\ stack = <<>>
  /\ fstate["#main"] = "UNSEEN"
  /\ fstate' = [fstate EXCEPT !["#main"] = Advance(@)]
  /\ UNCHANGED <<lowerFrame, globalVars, body, todo, stack>>

\* the function being lowered references fn for the first time
Schedule(fn) ==
  /\ pc = "lowering"
  /\ stack # <<>>
  /\ todo[Top] # <<>>
  /\ Head(todo[Top]) = fn
  /\ fstate[fn] = "UNSEEN"
  /\ fstate' = [fstate EXCEPT ![fn] = Advance(@)]
  /\ UNCHANGED <<lowerFrame, globalVars, body, todo, stack>>

\* the thunk of a scheduled function is run: its body is being generated
BeginLower(fn) ==
  /\ pc = "lowering"
  /\ fstate[fn] = "SCHEDULED"
  /\ \/ stack = <<>> /\ fn = "#main"
     \/ stack # <<>> /\ todo[Top] # <<>> /\ Head(todo[Top]) = fn
  /\ fstate' = [fstate EXCEPT ![fn] = Advance(@)]
  /\ stack' = Append(stack, fn)
  /\ body' = [body EXCEPT ![fn] = Prelude(source, fn)]
  /\ todo' = [todo EXCEPT ![fn] = Refs(source, fn)]
  /\ uniqId' = uniqId + 1
  /\ UNCHANGED <<lowerFrame, imports, valtype, valtypeBinary, pageSize>>

\* reentry: the callee is itself being lowered, so its call is deferred;
\* the resolver either yields the call or (a generator bug) does not
EmitDeferred(fn, good) ==
  /\ pc = "lowering"
  /\ stack # <<>>
  /\ todo[Top] # <<>>
  /\ Head(todo[Top]) = fn
  /\ fstate[fn] = "LOWERING"
  /\ body' = [body EXCEPT ![Top] = Append(@,
       Instr(IF good THEN "deferred" ELSE "deferred_bad", FuncIndex(fn)))]
  /\ todo' = [todo EXCEPT ![Top] = Tail(@)]
  /\ UNCHANGED <<lowerFrame, globalVars, fstate, stack>>

\* the callee is generated: a direct call of its index
EmitCall(fn) ==
  /\ pc = "lowering"
  /\ stack # <<>>
  /\ todo[Top] # <<>>
  /\ Head(todo[Top]) = fn
  /\ fstate[fn] = "LOWERED"
  /\ body' = [body EXCEPT ![Top] = Append(@, Instr("call", FuncIndex(fn)))]
  /\ todo' = [todo EXCEPT ![Top] = Tail(@)]
  /\ UNCHANGED <<lowerFrame, globalVars, fstate, stack>>

\* the body's references are all lowered and the function's index is known
Patch ==
  /\ pc = "lowering"
  /\ stack # <<>>
  /\ todo[Top] = <<>>
  /\ fstate[Top] = "LOWERING"
  /\ fstate' = [fstate EXCEPT ![Top] = Advance(@)]
  /\ UNCHANGED <<lowerFrame, globalVars, body, todo, stack>>

\* the body is final
Finish ==
  /\ pc = "lowering"
  /\ stack # <<>>
  /\ fstate[Top] = "DEFERRED_PATCHED"
  /\ ~(Top = "#main" /\ source.fail = "codegen")
  /\ fstate' = [fstate EXCEPT ![Top] = Advance(@)]
  /\ body' = [body EXCEPT ![Top] = @ \o Epilogue(Top)]
  /\ stack' = SubSeq(stack, 1, Len(stack) - 1)
  /\ UNCHANGED <<lowerFrame, globalVars, todo>>

\* a built-in declares a further import while a body is generated
DeclareImport ==
  /\ pc = "lowering"
  /\ stack # <<>>
  /\ "builtinImport" \notin Range(imports)
  /\ imports' = createImport(imports, "builtinImport")
  /\ UNCHANGED <<lowerFrame, uniqId, valtype, valtypeBinary, pageSize,
                 lowerVars>>

\* codegen throws on a construct it does not support
CodegenThrow ==
  /\ pc = "lowering"
  /\ stack # <<>>
  /\ source.fail = "codegen"
  /\ Throw("codegen", "UnsupportedError")
  /\ UNCHANGED <<source, ran, trees, irs, codegenArg, resetDone, prefVars,
                 globalVars, lowerVars, clockVars>>

\* codegen returns ir; result.stages.codegen and its pre-opt disassembly
CodegenReturn ==
  /\ pc = "lowering"
  /\ stack = <<>>
  /\ fstate["#main"] = "LOWERED"
  /\ LET funcs == ModuleFuncs(fstate, body)
         ir == Len(irs) + 1
     IN /\ irs' = Append(irs, [funcs |-> funcs])
        /\ result' = Record(result, "codegen",
             [name |-> "Wasm IR", data |-> ir,
              time |-> Time(t2, now + Cost("codegen", source)),
              disassembly |-> Disassembly(funcs)])
  /\ now' = now + Cost("codegen", source) + Cost("disassemble", source)
  /\ UNCHANGED t2
  /\ trees' = [trees EXCEPT ![codegenArg].lowered = TRUE]
  /\ pc' = StageAfter("codegen")
  /\ UNCHANGED <<source, returned, failed, ran, codegenArg, resetDone,
                 prefVars, globalVars, lowerVars>>

\* Stage 4: Optimization, in place, and the post-opt disassembly
StageOpt ==
  /\ pc = "opt"
  /\ ran' = Append(ran, "opt")
  /\ LET ir == result.stages["codegen"].data
         funcs == opt(irs[ir].funcs, tailCall)
     IN /\ irs' = [irs EXCEPT ![ir].funcs = funcs]
        /\ result' = Record(result, "opt",
             [name |-> "Optimized Wasm IR", data |-> ir,
              time |-> Time(now, now + Cost("opt", source)),
              disassembly |-> Disassembly(funcs)])
  /\ now' = now + Cost("opt", source) + Cost("disassemble", source)
  /\ UNCHANGED t2
  /\ pc' = StageAfter("opt")
  /\ UNCHANGED <<source, returned, failed, trees, codegenArg, resetDone,
                 prefVars, globalVars, lowerVars>>

\* Stage 5: Assembly
StageAssemble ==
  /\ pc = "assemble"
  /\ ran' = Append(ran, "assemble")
  /\ now' = now + Cost("assemble", source)
  /\ UNCHANGED t2
  /\ LET ir == result.stages["codegen"].data
         out == assemble(irs[ir].funcs, source)
     IN /\ irs' = [irs EXCEPT ![ir].funcs = out.funcs]
        /\ IF out.error = Null
             THEN /\ result' = Record(result, "assemble",
                       [name |-> "WebAssembly Binary",
                        data |-> Binary(out.funcs),
                        size |-> Binary(out.funcs).byteLength,
                        time |-> Time(now, now')])
                  /\ pc' = StageAfter("assemble")
                  /\ returned' = (pc' = "idle")
                  /\ UNCHANGED failed
             ELSE Throw("assemble", out.error)
  /\ UNCHANGED <<source, trees, codegenArg, resetDone, prefVars, globalVars,
                 lowerVars>>

Lowering ==
  \/ ScheduleMain
  \/ \E fn \in DOMAIN fstate : Schedule(fn)
  \/ \E fn \in DOMAIN fstate : BeginLower(fn)
  \/ \E fn \in DOMAIN fstate, good \in BOOLEAN : EmitDeferred(fn, good)
  \/ \E fn \in DOMAIN fstate : EmitCall(fn)
  \/ Patch
  \/ Finish
  \/ DeclareImport
  \/ CodegenThrow
  \/ CodegenReturn

PipeNext ==
  \/ \E src \in Sources : CallCompileAll(src)
  \/ StageTokens
  \/ StageParse
  \/ StageSemantic
  \/ StageCodegen
  \/ Lowering
  \/ StageOpt
  \/ StageAssemble

vars == <<pipeVars, auxVars>>

\* ------------------------------------------------------------------------
\* The optimizer on its own: any instruction sequence, one rewrite at a time
\* ------------------------------------------------------------------------

\* longest instruction sequence handed to the optimizer
MaxSeqLen == 3

\* highest local index used
MaxLocal == 1

\* deepest operand stack a sequence is typed against
MaxStack == 3

SeqsUpTo(S, n) == UNION {[1..k -> S] : k \in 0..n}

ValTypes == {"i32", "i64", "f64"}

\* the callees of the sequences: the imports print and time, and f
Callees == {FuncIndex("print"), FuncIndex("time"), FuncIndex("f")}

\* the instructions codegen emits that the rules are about
Alphabet ==
  {Instr(op, k) : op \in {"local.get", "local.set", "local.tee"},
                  k \in 0..MaxLocal}
  \cup {Instr("drop", 0), Instr("i32.eq", 0), Instr("return", 0)}
  \cup {Instr("i32.const", 0), Instr("i32.const", 1), Instr("f64.const", 3)}
  \cup {Instr(op, 0) : op \in {"i64.extend_i32_s", "i32.wrap_i64",
                               "f64.convert_i32_s", "i32.trunc_f64_s"}}
  \cup {Instr("call", f) : f \in Callees}

\* a function's returns: always [f64, i32], value and type tag
Returns == <<"f64", "i32">>

\* locals hold values (f64) and their type tags (i32)
LocalType(k) == IF k % 2 = 0 THEN "f64" ELSE "i32"

\* createImport(name, params, returns): print and printChar take one operand
\* and return nothing, time and timeOrigin take none and return one
FuncSig(f) ==
  CASE f = FuncIndex("print") -> [params |-> <<"f64">>, results |-> <<>>]
    [] f = FuncIndex("printChar") -> [params |-> <<"i32">>, results |-> <<>>]
    [] f = FuncIndex("time") -> [params |-> <<>>, results |-> <<"f64">>]
    [] f = FuncIndex("timeOrigin") -> [params |-> <<>>, results |-> <<"f64">>]
    [] f = FuncIndex("#main") -> [params |-> <<>>, results |-> Returns]
    [] OTHER -> [params |-> <<"f64", "i32">>, results |-> Returns]

\* the operand types an instruction pops (topmost last) and pushes
Pops(i) ==
  CASE i.op \in {"local.set", "local.tee"} -> <<LocalType(i.arg)>>
    [] i.op = "i32.eq" -> <<"i32", "i32">>
    [] i.op \in {"i32.eqz", "i64.extend_i32_s", "f64.convert_i32_s"} ->
         <<"i32">>
    [] i.op = "i32.wrap_i64" -> <<"i64">>
    [] i.op = "i32.trunc_f64_s" -> <<"f64">>
    [] i.op \in {"call", "return_call"} -> FuncSig(i.arg).params
    [] i.op = "return" -> Returns
    [] OTHER -> <<>>

Pushes(i) ==
  CASE i.op \in {"local.get", "local.tee"} -> <<LocalType(i.arg)>>
    [] i.op \in {"i32.const", "i32.eq", "i32.eqz", "i32.wrap_i64",
                 "i32.trunc_f64_s"} -> <<"i32">>
    [] i.op \in {"i64.const", "i64.extend_i32_s"} -> <<"i64">>
    [] i.op \in {"f64.const", "f64.convert_i32_s"} -> <<"f64">>
    [] i.op = "call" -> FuncSig(i.arg).results
    [] OTHER -> <<>>

EndsWith(st, tys) ==
  /\ Len(tys) <= Len(st)
  /\ SubSeq(st, Len(st) - Len(tys) + 1, Len(st)) = tys

Invalid == [ok |-> FALSE, dead |-> FALSE, st |-> <<>>]

\* after a return the rest of the sequence is unreachable
Dead == [ok |-> TRUE, dead |-> TRUE, st |-> <<>>]

\* validation of one instruction against the operand stack ts.st
TypeStep(ts, i) ==
  IF ~ts.ok \/ ts.dead THEN ts
  ELSE IF i.op = "drop"
    THEN IF ts.st = <<>> THEN Invalid
         ELSE [ts EXCEPT !.st = SubSeq(@, 1, Len(@) - 1)]
  ELSE IF IsDeferred(i) THEN Invalid
  ELSE IF i.op = "return_call" /\ FuncSig(i.arg).results # Returns
    THEN Invalid
  ELSE IF ~EndsWith(ts.st, Pops(i)) THEN Invalid
  ELSE IF i.op \in {"return", "return_call"} THEN Dead
  ELSE [ts EXCEPT
          !.st = SubSeq(@, 1, Len(@) - Len(Pops(i))) \o Pushes(i)]

RECURSIVE TypeFrom(_, _, _)
TypeFrom(ts, seq, i) ==
  IF i > Len(seq) THEN ts ELSE TypeFrom(TypeStep(ts, seq[i]), seq, i + 1)

\* the stack effect of seq on the operand stack st
StackEffect(seq, st) ==
  TypeFrom([ok |-> TRUE, dead |-> FALSE, st |-> st], seq, 1)

Stacks == SeqsUpTo(ValTypes, MaxStack)

\* seq2 has the stack effect of seq1 wherever seq1 is valid
SameSignature(seq1, seq2) ==
  \A st \in Stacks :
    StackEffect(seq1, st).ok => StackEffect(seq2, st) = StackEffect(seq1, st)

OptIdle == wasm = <<>> /\ orig = <<>> /\ applied = "none" /\ passes = 0

\* one rewrite of the sequence by `rule` at position i
Rewrite(i, rule) ==
  /\ i < Len(wasm)
  /\ Matches(rule, wasm[i], wasm[i + 1], tailCall)
  /\ wasm' = RewriteAt(wasm, i, rule)
  /\ applied' = rule
  /\ UNCHANGED <<orig, passes, pipeVars, convVars, uiVars, tokVars>>

OptNext ==
  \/ \E i \in 1..MaxSeqLen : Rewrite(i, "set_get")
  \/ \E i \in 1..MaxSeqLen : Rewrite(i, "get_drop")
  \/ \E i \in 1..MaxSeqLen : Rewrite(i, "tee_drop")
  \/ \E i \in 1..MaxSeqLen : Rewrite(i, "const_drop")
  \/ \E i \in 1..MaxSeqLen : Rewrite(i, "const0_eq")
  \/ \E i \in 1..MaxSeqLen : Rewrite(i, "conv_roundtrip")
  \/ \E i \in 1..MaxSeqLen : Rewrite(i, "const_trunc")
  \/ \E i \in 1..MaxSeqLen : Rewrite(i, "call_return")

\* most passes run over one sequence (--opt-wasm-runs=N)
MaxPasses == 3

\* one whole pass of the optimizer over the sequence
OptPass ==
  /\ passes < MaxPasses
  /\ wasm' = Pass(wasm, tailCall)
  /\ passes' = passes + 1
  /\ applied' = "pass"
  /\ UNCHANGED <<orig, pipeVars, convVars, uiVars, tokVars>>

PassNext == OptPass

\* ------------------------------------------------------------------------
\* The conversion opcodes on values
\* ------------------------------------------------------------------------

\* width of an i32 in the model's scale (an i64 is twice as wide, and an f64
\* holds every i32 exactly)
I32Bits == 3

RECURSIVE Pow2(_)
Pow2(n) == IF n = 0 THEN 1 ELSE 2 * Pow2(n - 1)

I32Min == -Pow2(I32Bits - 1)
I32Max == Pow2(I32Bits - 1) - 1

\* a value: its type, its kind (an f64 may be NaN or an infinity) and its
\* number; an f64 carries twice its value, so that halves are representable
Val(ty, kind, n) == [ty |-> ty, kind |-> kind, n |-> n]

I32Values == {Val("i32", "num", n) : n \in I32Min..I32Max}

F64Values ==
  {Val("f64", "num", n) : n \in (-Pow2(I32Bits + 1))..Pow2(I32Bits + 1)}
  \cup {Val("f64", k, 0) : k \in {"nan", "inf", "ninf"}}

\* truncation toward zero of an f64 number
TruncHalves(n) == IF n >= 0 THEN n \div 2 ELSE -((-n) \div 2)

Ok(v) == [trap |-> FALSE, val |-> v]
Trap(v) == [trap |-> TRUE, val |-> v]

\* i32.trunc_f64_s, or its saturating form i32.trunc_sat_f64_s
Trunc(v, sat) ==
  LET t == TruncHalves(v.n)
  IN CASE v.kind = "nan" ->
            IF sat THEN Ok(Val("i32", "num", 0)) ELSE Trap(v)
       [] v.kind = "inf" \/ (v.kind = "num" /\ t > I32Max) ->
            IF sat THEN Ok(Val("i32", "num", I32Max)) ELSE Trap(v)
       [] v.kind = "ninf" \/ (v.kind = "num" /\ t < I32Min) ->
            IF sat THEN Ok(Val("i32", "num", I32Min)) ELSE Trap(v)
       [] OTHER -> Ok(Val("i32", "num", t))

\* the value a conversion opcode yields, or its trap
Convert(op, v, sat) ==
  CASE op = "i64.extend_i32_s" -> Ok(Val("i64", "num", v.n))
    [] op = "i32.wrap_i64" ->
         Ok(Val("i32", "num",
                ((v.n - I32Min) % Pow2(I32Bits)) + I32Min))
    [] op = "f64.convert_i32_s" -> Ok(Val("f64", "num", 2 * v.n))
    [] OTHER -> Trunc(v, sat)

\* the values of the type a pair starts from
SourceValues(pair) ==
  IF pair[1] = "i32.trunc_f64_s" THEN F64Values ELSE I32Values

ConvIdle ==
  /\ cvPair = <<"i64.extend_i32_s", "i32.wrap_i64">>
  /\ cvIn = Val("i32", "num", 0)
  /\ cvVal = Ok(Val("i32", "num", 0))
  /\ cvStep = 0
  /\ cvSat = FALSE

\* the next opcode of the pair runs on the value so far
ConvStep ==
  /\ cvStep < 2
  /\ ~cvVal.trap
  /\ cvVal' = Convert(cvPair[cvStep + 1], cvVal.val, cvSat)
  /\ cvStep' = cvStep + 1
  /\ UNCHANGED <<cvPair, cvIn, cvSat, pipeVars, optVars, uiVars, tokVars>>

\* a trap ends the sequence
ConvTrapped ==
  /\ cvStep < 2
  /\ cvVal.trap
  /\ cvStep' = 2
  /\ UNCHANGED <<cvPair, cvIn, cvVal, cvSat, pipeVars, optVars, uiVars,
                 tokVars>>

ConvNext == ConvStep \/ ConvTrapped

\* ------------------------------------------------------------------------
\* tokenize(source), the bridge's regex tokenizer
\* ------------------------------------------------------------------------

\* longest source text handed to tokenize
MaxSrcLen == 4

\* the characters of the texts: newline, slash, star, double quote,
\* backslash, a digit, the dot, two letters, and a character of no pattern
Chars == {"\n", "/", "*", "\"", "\\", "1", ".", "i", "n", "#"}

Whitespace == {"\n"}
Digits == {"1"}
Letters == {"i", "n"}
\* \w, the characters between which \b finds no boundary
WordChars == Letters \cup Digits

\* source.slice(a, b), positions counted from 0
Slice(src, a, b) == SubSeq(src, a + 1, b)

\* does src, from position p on, start with the characters of word
StartsWith(src, p, word) ==
  /\ p + Len(word) <= Len(src)
  /\ Slice(src, p, p + Len(word)) = word

\* length of the longest run of characters of set S from position p on
RECURSIVE Run(_, _, _)
Run(src, p, S) ==
  IF p < Len(src) /\ src[p + 1] \in S THEN 1 + Run(src, p + 1, S) ELSE 0

\* /^\/\*[\s\S]*?\*\//: the end of the first star-slash at or after p, or 0
RECURSIVE BlockEnd(_, _)
BlockEnd(src, p) ==
  IF p + 2 > Len(src) THEN 0
  ELSE IF StartsWith(src, p, <<"*", "/">>) THEN p + 2
  ELSE BlockEnd(src, p + 1)

\* /^"(?:[^"\\]|\\.)*"/ from position p inside the literal: the end of the
\* closing quote, or 0 (the dot matches no newline)
RECURSIVE StringEnd(_, _)
StringEnd(src, p) ==
  IF p >= Len(src) THEN 0
  ELSE IF src[p + 1] = "\"" THEN p + 1
  ELSE IF src[p + 1] = "\\"
    THEN IF p + 1 < Len(src) /\ src[p + 2] # "\n"
           THEN StringEnd(src, p + 2) ELSE 0
  ELSE StringEnd(src, p + 1)

PatternTypes == <<"whitespace", "comment", "comment", "string", "number",
                  "keyword", "punctuation", "operator", "identifier">>

\* length of match[0] of the k-th pattern on source.slice(p); 0: no match
MatchLen(src, p, k) ==
  CASE k = 1 -> Run(src, p, Whitespace)
    [] k = 2 -> IF StartsWith(src, p, <<"/", "/">>)
                  THEN 2 + Run(src, p + 2, Chars \ {"\n"}) ELSE 0
    [] k = 3 -> IF StartsWith(src, p, <<"/", "*">>) /\ BlockEnd(src, p + 2) > 0
                  THEN BlockEnd(src, p + 2) - p ELSE 0
    [] k = 4 -> IF StartsWith(src, p, <<"\"">>) /\ StringEnd(src, p + 1) > 0
                  THEN StringEnd(src, p + 1) - p ELSE 0
    [] k = 5 -> LET int == Run(src, p, Digits)
                IN IF int = 0 THEN 0
                   ELSE IF StartsWith(src, p + int, <<".">>)
                     THEN int + 1 + Run(src, p + int + 1, Digits)
                   ELSE int
    [] k = 6 -> IF /\ StartsWith(src, p, <<"i", "n">>)
                   /\ (p + 2 = Len(src) \/ src[p + 3] \notin WordChars)
                  THEN 2 ELSE 0
    [] k = 7 -> IF StartsWith(src, p, <<".", ".", ".">>) THEN 3
                ELSE IF StartsWith(src, p, <<".">>) THEN 1 ELSE 0
    [] k = 8 -> IF StartsWith(src, p, <<"*", "*">>) THEN 2
                ELSE IF p < Len(src) /\ src[p + 1] \in {"*", "/"} THEN 1
                ELSE 0
    [] OTHER -> IF p < Len(src) /\ src[p + 1] \in Letters
                  THEN 1 + Run(src, p + 1, WordChars) ELSE 0

\* the patterns that match at p
Matching(src, p) ==
  {k \in 1..Len(PatternTypes) : MatchLen(src, p, k) > 0}

\* the first of them, as the for loop with its break finds it
FirstMatch(src, p) ==
  CHOOSE k \in Matching(src, p) : \A j \in Matching(src, p) : k <= j

\* a loop that pushes a token for every match
SkippedNone(type) == FALSE

\* if (type !== 'whitespace'): the matches that push no token
Skipped(type) == type = "whitespace"

Token(type, src, a, b) ==
  [type |-> type, value |-> Slice(src, a, b), start |-> a, end |-> b]

TokIdle ==
  tkSource = <<>> /\ tkPos = 0 /\ tkTokens = <<>> /\ tkReturned = FALSE

tokFrame == <<pipeVars, optVars, convVars, uiVars>>

\* one turn of the while loop in which a pattern matches
TokMatch ==
  /\ ~tkReturned
  /\ tkPos < Len(tkSource)
  /\ Matching(tkSource, tkPos) # {}
  /\ LET k == FirstMatch(tkSource, tkPos)
         n == MatchLen(tkSource, tkPos, k)
     IN /\ tkTokens' = IF Skipped(PatternTypes[k]) THEN tkTokens
                        ELSE Append(tkTokens,
                               Token(PatternTypes[k], tkSource, tkPos,
                                     tkPos + n))
        /\ tkPos' = tkPos + n
  /\ UNCHANGED <<tkSource, tkReturned, tokFrame>>

\* one turn of the while loop in which no pattern matches
TokUnknown ==
  /\ ~tkReturned
  /\ tkPos < Len(tkSource)
  /\ Matching(tkSource, tkPos) = {}
  /\ tkTokens' = Append(tkTokens,
                        Token("unknown", tkSource, tkPos, tkPos + 1))
  /\ tkPos' = tkPos + 1
  /\ UNCHANGED <<tkSource, tkReturned, tokFrame>>

\* the loop ends: return tokens
TokReturn ==
  /\ ~tkReturned
  /\ tkPos >= Len(tkSource)
  /\ tkReturned' = TRUE
  /\ UNCHANGED <<tkSource, tkPos, tkTokens, tokFrame>>

TokNext == TokMatch \/ TokUnknown \/ TokReturn

\* ------------------------------------------------------------------------
\* The explorer page (app.js)
\* ------------------------------------------------------------------------

\* most compile() invocations waiting in their await at one time
MaxPending == 2

\* let lastResult = null
NoResult == [none |-> TRUE, stages |-> {}, errors |-> Null]

\* what compileAll returns to the page for a text: the keys of the stage
\* records it built, and the error
compileAllResult(text) ==
  [none |-> FALSE,
   stages |-> IF text = "none" THEN Range(STAGE_ORDER)
              ELSE {STAGE_ORDER[i] : i \in 1..(StageIndex(text) - 1)},
   errors |-> IF text = "none" THEN Null ELSE text]

\* hideDetail(): the view keeps its content and gets the class hidden
hideDetail(dv) == [dv EXCEPT !.hidden = TRUE]

\* a showDetail that renders whether or not the result has the stage
showDetailAlways(dv, key, res) == [hidden |-> FALSE, key |-> key, of |-> res]

\* showDetail(key, result)
showDetail(dv, key, res) ==
  IF key \notin res.stages THEN hideDetail(dv)
  ELSE [hidden |-> FALSE, key |-> key, of |-> res]

\* the page as the script leaves it once it has run: both panes hidden, the
\* editor holding the example program, the bundle still loading
UIInit ==
  /\ editor = "none"
  /\ loaded = FALSE
  /\ autoDue = FALSE
  /\ pending = 0
  /\ compiling = FALSE
  /\ errorBar = [hidden |-> TRUE, text |-> ""]
  /\ lastResult = NoResult
  /\ activeStage = Null
  /\ detail = [hidden |-> TRUE, key |-> Null, of |-> NoResult]
  /\ completed = "none"

uiFrame == <<pipeVars, optVars, convVars, tokVars>>

\* import('./compiler-bundle.js').then(...): Ready, setTimeout(compile, 100)
BundleLoaded ==
  /\ ~loaded
  /\ loaded' = TRUE
  /\ autoDue' = TRUE
  /\ UNCHANGED <<editor, pending, compiling, errorBar, lastResult,
                 activeStage, detail, completed, uiFrame>>

\* compile() up to its await: button and error bar, then the 10 ms timer
CompileBegin ==
  /\ pending < MaxPending
  /\ compiling' = TRUE
  /\ errorBar' = [errorBar EXCEPT !.hidden = TRUE]
  /\ pending' = pending + 1
  /\ UNCHANGED <<editor, loaded, lastResult, activeStage, detail, completed,
                 uiFrame>>

\* the Compile button, Ctrl-Enter or Cmd-Enter
CompileClicked == CompileBegin /\ UNCHANGED autoDue

\* the initial automatic compile
AutoCompile == autoDue /\ autoDue' = FALSE /\ CompileBegin

\* compile() after its await; timers of equal delay fire in the order set
CompileResume ==
  /\ pending > 0
  /\ pending' = pending - 1
  /\ compiling' = FALSE
  /\ IF loaded
       THEN LET res == compileAllResult(editor)
            IN /\ lastResult' = res
               /\ detail' = IF activeStage # Null
                               THEN showDetail(detail, activeStage, res)
                             ELSE hideDetail(detail)
               /\ errorBar' = IF res.errors # Null
                                 THEN [hidden |-> FALSE, text |-> res.errors]
                               ELSE errorBar
               /\ completed' = IF res.errors # Null THEN "failed" ELSE "ok"
       ELSE \* window.porfforExplorer is undefined: the catch block
            /\ errorBar' = [hidden |-> FALSE, text |-> "TypeError"]
            /\ completed' = "failed"
            /\ UNCHANGED <<lastResult, detail>>
  /\ UNCHANGED <<editor, loaded, autoDue, activeStage, uiFrame>>

\* the user edits the text
EditorChanged(text) ==
  /\ editor # text
  /\ editor' = text
  /\ UNCHANGED <<loaded, autoDue, pending, compiling, errorBar, lastResult,
                 activeStage, detail, completed, uiFrame>>

\* click on a stage of the pipeline
StageClicked(key) ==
  /\ IF activeStage = key
       THEN /\ activeStage' = Null
            /\ detail' = hideDetail(detail)
       ELSE /\ activeStage' = key
            /\ detail' = showDetail(detail, key, lastResult)
  /\ UNCHANGED <<editor, loaded, autoDue, pending, compiling, errorBar,
                 lastResult, completed, uiFrame>>

\* click on the detail view's close button
CloseClicked ==
  /\ ~detail.hidden
  /\ activeStage' = Null
  /\ detail' = hideDetail(detail)
  /\ UNCHANGED <<editor, loaded, autoDue, pending, compiling, errorBar,
                 lastResult, completed, uiFrame>>

UINext ==
  \/ BundleLoaded
  \/ CompileClicked
  \/ AutoCompile
  \/ CompileResume
  \/ \E text \in FailKinds : EditorChanged(text)
  \/ \E key \in Range(STAGE_ORDER) : StageClicked(key)
  \/ CloseClicked

Init == PipeInit /\ OptIdle /\ ConvIdle /\ UIInit /\ TokIdle

Next == PipeNext

Spec == Init /\ [][Next]_vars

\* ------------------------------------------------------------------------
\* Properties of compileAll
\* ------------------------------------------------------------------------

IsPrefix(s, t) == Len(s) <= Len(t) /\ \A i \in 1..Len(s) : s[i] = t[i]

HasStage(key) == key \in DOMAIN result.stages

\* the stages that come before s in STAGE_ORDER
StagesBefore(s) == {STAGE_ORDER[i] : i \in 1..(StageIndex(s) - 1)}

\* the messages a stage's exceptions carry
Messages(stage) ==
  CASE stage = "parse" -> {"ParseError"}
    [] stage = "semantic" -> {"RedeclarationError"}
    [] stage = "codegen" -> {"ParseError", "UnsupportedError"}
    [] stage = "assemble" -> {"UnresolvedReferenceError", "EncodingError"}
    [] OTHER -> {}

\* C1 as stated: a result that reports an error carries no stage output of
\* the stages that completed before the failure.
C1_NoPartialArtifact ==
  (returned /\ result.errors # Null) => DOMAIN result.stages = {}

\* C1 as amended: a result that reports an error carries the outputs of
\* exactly the stages that completed before the failing stage, and so never
\* the assemble stage's binary.
C1_CompletedStagesKept ==
  (returned /\ result.errors # Null) =>
    /\ failed # Null
    /\ DOMAIN result.stages = StagesBefore(failed)
    /\ ~HasStage("assemble")

C1_Witness ==
  /\ returned
  /\ result.errors = "UnsupportedError"
  /\ DOMAIN result.stages = {"tokens", "parse", "semantic"}

C3_CodegenGetsAnnotatedTree ==
  codegenArg # 0 =>
    /\ HasStage("semantic")
    /\ codegenArg = result.stages["semantic"].data
    /\ trees[codegenArg].annotated

\* C4: a call that has ended has returned its result, in one of two shapes:
\* errors null and the assemble stage holding the binary, or errors set to
\* the failing stage's message and no assemble stage.
C4_BinaryOrError ==
  /\ (pc = "idle" /\ ran # <<>>) => returned
  /\ returned =>
       /\ pc = "idle"
       /\ \/ /\ result.errors = Null
             /\ failed = Null
             /\ HasStage("assemble")
             /\ result.stages["assemble"].data.kind = "wasm"
          \/ /\ result.errors # Null
             /\ failed # Null
             /\ result.errors \in Messages(failed)
             /\ ~HasStage("assemble")

C4_Witness ==
  /\ returned
  /\ result.errors = Null
  /\ HasStage("assemble")
  /\ source.graph = "mutual"

\* a stage of the running call is about to run, or codegen is running
InCall == pc # "idle"

AtCodegenStart ==
  pc = "lowering" /\ \A fn \in DOMAIN fstate : fstate[fn] = "UNSEEN"

FreshConfig ==
  /\ valtype = "f64"
  /\ valtypeBinary = Valtype_f64
  /\ pageSize = PageSize \div 4
  /\ imports = ImportNames

\* C5 as stated: no stage of a call sees a counter value or an import
\* registration that an earlier call left, and the configuration is the same
\* at the start of every code generation.
C5_FreshForEveryStage ==
  /\ (InCall /\ ~resetDone) => (uniqId = 0 /\ imports = ImportNames)
  /\ AtCodegenStart => (uniqId = 0 /\ FreshConfig)

\* C5 as amended: code generation starts from a zero counter, the four
\* runtime imports (each once) and the fixed value type and page size, and
\* optimization and assembly run after that reset; the stages before code
\* generation run with what the call found.
C5_FreshAtCodegen ==
  /\ AtCodegenStart => (uniqId = 0 /\ FreshConfig /\ resetDone)
  /\ pc \in {"lowering", "opt", "assemble"} => resetDone
  /\ (InCall /\ ~resetDone) =>
       (uniqId = atCall.uniqId /\ imports = atCall.imports)

C5_Witness ==
  /\ AtCodegenStart
  /\ atCall.uniqId > 0
  /\ "builtinImport" \in Range(atCall.imports)

\* C6: semantic analysis runs in a compile only if Prefs.closures is on.
C6_SemanticOnlyWithClosures ==
  "semantic" \in Range(ran) => closures

\* the module handed to opt and assemble
CurrentIr == result.stages["codegen"].data

C7_OnlyLowered ==
  (pc \in {"opt", "assemble"}) =>
    \A fn \in DOMAIN irs[CurrentIr].funcs : fstate[fn] = "LOWERED"

C7_Step ==
  \A fn \in DOMAIN fstate \cap DOMAIN fstate' :
    fstate'[fn] # fstate[fn] =>
      LowerIndex(fstate'[fn]) = LowerIndex(fstate[fn]) + 1

C8_SomeDeferred ==
  \E fn \in DOMAIN irs[CurrentIr].funcs : HasDeferred(irs[CurrentIr].funcs[fn])

\* C8: once the assemble stage has its binary no function body holds a
\* deferred instruction, and when assembly ends with a deferred instruction
\* left in a body it has failed with UnresolvedReferenceError, without binary.
C8_NoDeferredAfterAssembly ==
  /\ HasStage("assemble") => ~C8_SomeDeferred
  /\ (returned /\ "assemble" \in Range(ran) /\ C8_SomeDeferred) =>
       /\ result.errors = "UnresolvedReferenceError"
       /\ ~HasStage("assemble")

C8_Witness ==
  /\ HasStage("assemble")
  /\ \E fn \in DOMAIN result.stages["codegen"].disassembly :
       result.stages["codegen"].disassembly[fn]
         = <<Instr(";; disassembly error", 0)>>

C8_WitnessUnresolved ==
  /\ returned
  /\ result.errors = "UnresolvedReferenceError"

\* the optimizer alone, on every sequence up to MaxSeqLen
InitOpt ==
  /\ PipeInit
  /\ UIInit
  /\ TokIdle
  /\ closures
  /\ ConvIdle
  /\ wasm \in SeqsUpTo(Alphabet, MaxSeqLen)
  /\ orig = wasm
  /\ applied = "none"
  /\ passes = 0

SpecOpt == InitOpt /\ [][OptNext]_vars

\* a removable conversion pair alone, on every value of its source type
InitConv ==
  /\ PipeInit
  /\ UIInit
  /\ TokIdle
  /\ closures
  /\ tailCall
  /\ OptIdle
  /\ cvPair \in ConvPairs
  /\ cvIn \in SourceValues(cvPair)
  /\ cvVal = Ok(cvIn)
  /\ cvStep = 0
  /\ cvSat \in BOOLEAN

SpecConv == InitConv /\ [][ConvNext]_vars

\* the optimizer run pass after pass on every sequence up to MaxSeqLen
SpecPass == InitOpt /\ [][PassNext]_vars

\* C9: every rewrite leaves the sequence with the stack effect it had: on
\* every operand stack on which the sequence was valid, the rewritten
\* sequence is valid and leaves the same stack.
C9_RewritePreservesSignature == SameSignature(orig, wasm)

\* C9 for every rewrite but a tail call of a callee whose results are not the
\* function's own returns
C9_SignatureKeptButForeignTailCall ==
  (\A i \in 1..Len(wasm) :
     wasm[i].op = "return_call" => FuncSig(wasm[i].arg).results = Returns)
  => SameSignature(orig, wasm)

\* C10: a removed conversion pair is the identity: run on any value of its
\* source type it does not trap and yields that value.
C10_RemovedPairIsIdentity ==
  cvStep = 2 => (~cvVal.trap /\ cvVal.val = cvIn)

\* C10 for the two pairs that start from an i32
C10_I32PairsAreIdentity ==
  (cvStep = 2 /\ cvIn.ty = "i32") => (~cvVal.trap /\ cvVal.val = cvIn)

\* C11: the passes reach a fixed point after finitely many of them (here
\* the first, since a pass rewrites until no rule matches and every rewrite
\* shortens the sequence), and every later pass leaves the sequence as it is.
C11_FixedPointReached ==
  passes >= 1 => MatchesIn(wasm, tailCall) = {}

C11_LaterPassChangesNothing == passes >= 1 => wasm' = wasm

C11_EveryRewriteShortens == [][Len(wasm') < Len(wasm)]_vars

StageOperation(stage) ==
  CASE stage = "tokens" -> "tokenize"
    [] stage = "semantic" -> "semantic"
    [] OTHER -> stage

\* the operations compileAll runs between a stage's two clock reads
TimedOperations(stage) ==
  CASE stage = "semantic" -> {"clone", "semantic"}
    [] stage = "codegen" -> {"parse", "codegen"}
    [] OTHER -> {StageOperation(stage)}

RECURSIVE SumCost(_, _)
SumCost(ops, src) ==
  IF ops = {} THEN 0
  ELSE LET op == CHOOSE x \in ops : TRUE
       IN Cost(op, src) + SumCost(ops \ {op}, src)

Succeeded == returned /\ result.errors = Null

\* C12 as stated: a successful result has a timing entry for each of the six
\* stages, each a non-negative duration, and each the time of that stage's
\* own work only.
C12_TimeOfThatStageOnly ==
  Succeeded =>
    \A i \in 1..Len(STAGE_ORDER) :
      /\ HasStage(STAGE_ORDER[i])
      /\ result.stages[STAGE_ORDER[i]].time >= 0
      /\ result.stages[STAGE_ORDER[i]].time
           = Cost(StageOperation(STAGE_ORDER[i]), source)

\* C12 as the code has it: the six entries exist and are non-negative, and
\* each is the time of everything between the stage block's two clock reads:
\* the clone is part of the semantic entry, the second parse is part of the
\* codegen entry, and the disassembly is part of no entry.
C12_TimeOfStageBlock ==
  Succeeded =>
    \A i \in 1..Len(STAGE_ORDER) :
      /\ HasStage(STAGE_ORDER[i])
      /\ result.stages[STAGE_ORDER[i]].time >= 0
      /\ result.stages[STAGE_ORDER[i]].time
           = SumCost(TimedOperations(STAGE_ORDER[i]), source)

\* a successful compile of a text that is slow to parse: the codegen entry
\* carries the time of the second parse
C12_Witness ==
  /\ Succeeded
  /\ source.slow = "parse"
  /\ result.stages["parse"].time = 1
  /\ result.stages["codegen"].time = 1

\* C13: the tree recorded as the parse stage's data stays what parse
\* returned: semantic analysis and code generation, which mutate the tree
\* they are given, are given other objects, and no later stage changes it.
C13_ParseTreeUnchanged ==
  HasStage("parse") =>
    /\ trees[result.stages["parse"].data] = parse(source)
    /\ HasStage("semantic") =>
         result.stages["semantic"].data # result.stages["parse"].data
    /\ codegenArg # result.stages["parse"].data

\* a finished compile whose semantic stage annotated its tree and whose code
\* generation consumed its own
C13_Witness ==
  /\ Succeeded
  /\ trees[result.stages["semantic"].data].annotated
  /\ trees[codegenArg].lowered
  /\ ~trees[result.stages["parse"].data].annotated
  /\ ~trees[result.stages["parse"].data].lowered

\* the IR as code generation produced it
Generated == ModuleFuncs(fstate, body)

\* C14 as stated: the codegen record's data is the IR as code generation
\* produced it, whatever the optimization stage does afterwards.
C14_CodegenDataAsGenerated ==
  (HasStage("codegen") /\ pc \in {"opt", "assemble", "idle"}) =>
    irs[result.stages["codegen"].data].funcs = Generated

\* C14 as the code has it: the codegen and opt records hold the same IR
\* object, which opt has rewritten in place; what the codegen record keeps
\* of the IR as generated is its disassembly, taken before opt ran.
C14_CodegenDataIsOptimizedIr ==
  HasStage("opt") =>
    /\ result.stages["codegen"].data = result.stages["opt"].data
    /\ result.stages["codegen"].disassembly = Disassembly(Generated)
    /\ pc = "assemble" =>
         irs[result.stages["codegen"].data].funcs
           = [fn \in DOMAIN Generated |->
                Runs(Generated[fn], OptRuns, tailCall)]

\* opt has rewritten the IR that the codegen record points to
C14_Witness ==
  /\ HasStage("opt")
  /\ pc = "assemble"
  /\ irs[result.stages["codegen"].data].funcs # Generated
  /\ result.stages["opt"].disassembly # result.stages["codegen"].disassembly

\* the explorer page alone
InitUI ==
  PipeInit /\ closures /\ tailCall /\ OptIdle /\ ConvIdle /\ UIInit /\ TokIdle

SpecUI == InitUI /\ [][UINext]_vars

\* C15: whenever no compile is in flight, the error bar is visible exactly
\* when the compile that completed last failed.
C15_ErrorBarShowsLastOutcome ==
  (pending = 0 /\ completed # "none") =>
    (~errorBar.hidden <=> completed = "failed")

\* C16 as stated: the detail view is visible exactly when some stage is
\* active, and when visible it shows the active stage of lastResult.
C16_DetailIffActive ==
  /\ ~detail.hidden <=> activeStage # Null
  /\ ~detail.hidden => (detail.key = activeStage /\ detail.of = lastResult)

\* C16 as the code has it: the detail view is visible exactly when some
\* stage is active and lastResult has a record of it, and it then shows that
\* stage of lastResult; a click on the active stage or on the close button
\* leaves no stage active and the view hidden.
C16_DetailShown ==
  /\ ~detail.hidden <=>
       (activeStage # Null /\ activeStage \in lastResult.stages)
  /\ ~detail.hidden => (detail.key = activeStage /\ detail.of = lastResult)

C16_ClickClears ==
  (activeStage # Null /\ (StageClicked(activeStage) \/ CloseClicked))
    => (activeStage' = Null /\ detail'.hidden)

\* C16 as amended, both parts: the view is visible exactly when the active
\* stage has a record in lastResult, and the clearing clicks clear.
C16_DetailIffActiveWithRecord ==
  [] C16_DetailShown /\ [][C16_ClickClears]_vars

\* a compile that failed before the active stage: the stage stays active and
\* the view, shown by the compile before it, is hidden
C16_Witness ==
  /\ activeStage = "assemble"
  /\ detail.hidden
  /\ detail.key = "assemble"
  /\ lastResult.errors # Null
  /\ completed = "failed"

\* tokenize alone, on every text up to MaxSrcLen
InitTok ==
  /\ PipeInit
  /\ closures
  /\ tailCall
  /\ OptIdle
  /\ ConvIdle
  /\ UIInit
  /\ tkSource \in SeqsUpTo(Chars, MaxSrcLen)
  /\ tkPos = 0
  /\ tkTokens = <<>>
  /\ tkReturned = FALSE

SpecTok == InitTok /\ [][TokNext]_vars

\* the positions a token covers
Covered(t) == t.start..(t.end - 1)

C17_TokensWellFormed ==
  /\ tkPos <= Len(tkSource)
  /\ \A i \in 1..Len(tkTokens) :
       LET t == tkTokens[i]
       IN /\ 0 <= t.start /\ t.start < t.end /\ t.end <= tkPos
          /\ t.value = Slice(tkSource, t.start, t.end)
          /\ t.type \notin {"whitespace", "error"}
          /\ t.type = "unknown" =>
               (t.end = t.start + 1 /\ Matching(tkSource, t.start) = {})
          /\ \A j \in (i + 1)..Len(tkTokens) : t.end <= tkTokens[j].start
  /\ \A p \in 0..(tkPos - 1) :
       (\A i \in 1..Len(tkTokens) : p \notin Covered(tkTokens[i]))
         => tkSource[p + 1] \in Whitespace
  /\ tkReturned => tkPos = Len(tkSource)

\* every turn of the loop moves pos forward, so the loop ends
C17_LoopAdvances == ~tkReturned' => (tkPos' > tkPos)

\* C17: tokenize ends on every text (each turn of its loop moves pos forward
\* and pos never passes the end), and its tokens are ordered by start,
\* non-empty, non-overlapping, each the slice of the text at its positions;
\* what no token covers is whitespace; a character no pattern matches is a
\* one-character unknown token; there is no whitespace or error token.
C17_Tokenize == [] C17_TokensWellFormed /\ [][C17_LoopAdvances]_vars

\* tokenize has returned from a text with skipped whitespace, a token of
\* several characters and an unknown character
C17_Witness ==
  /\ tkReturned
  /\ Len(tkSource) = MaxSrcLen
  /\ \E p \in 1..Len(tkSource) : tkSource[p] \in Whitespace
  /\ \E i \in 1..Len(tkTokens) : tkTokens[i].type = "unknown"
  /\ \E i \in 1..Len(tkTokens) :
       tkTokens[i].end > tkTokens[i].start + 1

====
